---- MODULE Spec2Model ----
(***************************************************************************)
(* Model of sybil-images/server.py: the lazily loaded SDXL pipeline, the   *)
(* generate / unload / styles handlers, the counters and the output        *)
(* directory.                                                              *)
(*                                                                         *)
(* Every handler is an `async def` coroutine that contains no `await`, so  *)
(* on the single uvicorn event loop a handler, once entered, runs to its   *)
(* return or raise before any other handler is entered.  The variable      *)
(* `running` is the request that holds the event loop; the steps of a      *)
(* handler are separate actions so that the intermediate states of the     *)
(* globals are states of the model.                                        *)
(***************************************************************************)
EXTENDS Integers, Sequences, FiniteSets, TLC

\* ---- bounds ----
MaxReq == 3          \* requests issued to the service in one run
MaxHex == 2          \* distinct values of uuid4().hex[:12]
MaxKey == 2          \* keys the str hash of a process can be given: 0..MaxKey
MaxSeed == 7         \* seeds are 0..MaxSeed (0..2**32 - 1 in the source)

Reqs == 1..MaxReq
Hex == 1..MaxHex

NoReq == 0           \* the event loop is idle
NoHandle == 0        \* Python's None in `pipe`
ReadReq == MaxReq + 1   \* what `running` holds while a read-only handler runs

GenKinds == {"avatar", "banner"}
\* get_device(), lines 34-40.  "mps" is left out: every line that looks at the
\* device (59, 76-79) treats it as it treats "cuda".
Devices == {"cuda", "cpu"}

\* File names f"{kind}_{hex}.png"
Names == GenKinds \X Hex

\* The two catalogs at import time (ten prompts each in the source, two here).
DefaultAvatarStyles == <<"portrait", "headshot">>
DefaultBannerStyles == <<"skyline", "mountains">>

\* Lists a PUT /styles body can carry, and the optional field around them.
StyleLists == {<<>>, <<"x">>}
StyleInputs == {[given |-> FALSE, list |-> <<>>]}
               \cup {[given |-> TRUE, list |-> l] : l \in StyleLists}

\* req.style of a generate request: "" (falsy) or an explicit style.
ReqStyles == {"", "custom"}

VARIABLES
    pipe,              \* global pipe: a handle or NoHandle
    model_loaded,      \* global model_loaded
    total_generated, avatars_generated, banners_generated,
    AVATAR_STYLES, BANNER_STYLES,
    files,             \* OUTPUT_DIR: name -> [state, by]
    device,            \* what get_device() returns on this host
    live,              \* handles constructed and not yet released
    onDevice,          \* live handles that .to(device) has moved
    constructions,     \* number of from_pretrained calls that returned
    running,           \* the request whose handler holds the event loop
    pc,                \* per request: position in its handler
    kind,              \* per request: which endpoint
    loc,               \* per request: the locals of its handler frame
    resp,              \* per request: HTTP status returned, 0 = none yet
    loadFailed,        \* some call of load_model() has raised
    renders,           \* requests in the order they called pipe(...)
    probe,             \* the frame of a read-only handler (health, stats,
                       \* recent) between its entry and its return
    hash_key,          \* the key of this process's str hash (PYTHONHASHSEED)
    seeds              \* per (name, kind): the seeds derived for it so far

vars == <<pipe, model_loaded, total_generated, avatars_generated,
          banners_generated, AVATAR_STYLES, BANNER_STYLES, files, device,
          live, onDevice, constructions, running, pc, kind, loc, resp,
          loadFailed, renders, probe, hash_key, seeds>>

model == <<pipe, model_loaded, live, onDevice, constructions>>
counters == <<total_generated, avatars_generated, banners_generated>>
catalogs == <<AVATAR_STYLES, BANNER_STYLES>>
process == <<device, hash_key, seeds>>
env == <<process, probe>>
disk == <<files, env>>
history == <<loadFailed, renders>>

Absent == [state |-> "absent", by |-> NoReq]

\* What a request finds when its handler is entered.
Snapshot == [files |-> files, total |-> total_generated,
             avatars |-> avatars_generated, banners |-> banners_generated,
             astyles |-> AVATAR_STYLES, bstyles |-> BANNER_STYLES,
             pipe |-> pipe, loaded |-> model_loaded,
             live |-> live, made |-> constructions]

NoSnapshot == [files |-> [n \in Names |-> Absent], total |-> 0,
               avatars |-> 0, banners |-> 0,
               astyles |-> <<>>, bstyles |-> <<>>,
               pipe |-> NoHandle, loaded |-> FALSE,
               live |-> {}, made |-> 0]

\* The frame of a read-only handler: which one, the fields of its response
\* that the model keeps, and the state found at entry.
NoProbe == [op |-> "none", loaded |-> FALSE, device |-> "cpu", total |-> 0,
            avatars |-> 0, banners |-> 0, limit |-> 0, files |-> <<>>,
            before |-> NoSnapshot]

\* The frame of a handler: the value of the right-hand side of line 54 before
\* it is assigned, whether `image` is bound, the step that raised (the `e` of
\* line 182), the state found at entry; for clear_output the list `files` of
\* line 293, the part of it the loop has not reached, and the "deleted" field
\* of its response.
NoLocals == [new |-> NoHandle, image |-> FALSE, fault |-> "none",
             before |-> NoSnapshot, listed |-> {}, todo |-> {},
             deleted |-> 0]

\* The process after import and uvicorn.run: everything but the directory.
InitProcess ==
    /\ pipe = NoHandle
    /\ model_loaded = FALSE
    /\ total_generated = 0
    /\ avatars_generated = 0
    /\ banners_generated = 0
    /\ AVATAR_STYLES = DefaultAvatarStyles
    /\ BANNER_STYLES = DefaultBannerStyles
    /\ device \in Devices
    /\ live = {}
    /\ onDevice = {}
    /\ constructions = 0
    /\ running = NoReq
    /\ pc = [r \in Reqs |-> "idle"]
    /\ kind = [r \in Reqs |-> "avatar"]
    /\ loc = [r \in Reqs |-> NoLocals]
    /\ resp = [r \in Reqs |-> 0]
    /\ loadFailed = FALSE
    /\ renders = <<>>
    /\ probe = NoProbe
    /\ seeds = {}

\* The service started on an empty output directory.
Init ==
    /\ InitProcess
    /\ files = [n \in Names |-> Absent]
    /\ hash_key = 0

\* ---- the event loop ----

\* Requests are numbered in the order in which their handlers are entered:
\* the next request to arrive takes the least unused number.
Arrives(r) ==
    /\ pc[r] = "idle"
    /\ \A q \in Reqs : q < r => pc[q] # "idle"

\* A handler that could be suspended between its steps (one that awaited, or
\* ran in the thread pool) would let any request run at any time.
MayRunSuspended(r) == TRUE

\* The event loop runs a step of request r: either r holds the loop, or the
\* loop is idle and r is entered.  The handlers are coroutines (async def)
\* without an await, so one that was entered keeps the loop until it returns.
MayRun(r) == running \in {NoReq, r}

At(r, label) == pc[r] = label /\ MayRun(r)

Goto(r, label) == pc' = [pc EXCEPT ![r] = label]

\* The handler is entered: it takes the loop and its frame is set up.
Enter(r, k, label) ==
    /\ Arrives(r)
    /\ MayRun(r)
    /\ running' = r
    /\ kind' = [kind EXCEPT ![r] = k]
    /\ loc' = [loc EXCEPT ![r] = [NoLocals EXCEPT !.before = Snapshot]]
    /\ Goto(r, label)

\* raise inside the try block of a generate handler: control goes to line 182
Raise(r, step) ==
    /\ Goto(r, "except")
    /\ loc' = [loc EXCEPT ![r].fault = step]

\* The handler returns or raises out: the response goes out, the frame is
\* dropped and the loop is free.
Finish(r, status) ==
    /\ Goto(r, "done")
    /\ resp' = [resp EXCEPT ![r] = status]
    /\ loc' = [loc EXCEPT ![r] = NoLocals]
    /\ running' = NoReq

\* ---- POST /generate-avatar, POST /generate-banner ----

\* lines 142-145 / 186-189: the coroutine is entered with its request body.
StartGenerate(r, k) ==
    /\ Enter(r, k, "load")
    /\ UNCHANGED <<model, counters, catalogs, disk, resp, history>>

\* load_model() without the early return of line 46.
LoadCheckAlways(r) ==
    /\ At(r, "load")
    /\ Goto(r, "construct")
    /\ UNCHANGED <<model, counters, catalogs, disk, running, kind, loc, resp,
                   history>>

\* load_model(), line 46: if model_loaded: return
LoadCheck(r) ==
    /\ At(r, "load")
    /\ IF model_loaded THEN Goto(r, "prep") ELSE Goto(r, "construct")
    /\ UNCHANGED <<model, counters, catalogs, disk, running, kind, loc, resp,
                   history>>

\* load_model(), lines 54-58, right-hand side: from_pretrained(...) either
\* raises or returns a new pipeline object; `pipe` still holds its old value.
LoadConstruct(r) ==
    /\ At(r, "construct")
    /\ \/ /\ Raise(r, "construct")
          /\ loadFailed' = TRUE
          /\ UNCHANGED <<live, constructions>>
       \/ /\ constructions' = constructions + 1
          /\ live' = live \cup {constructions + 1}
          /\ loc' = [loc EXCEPT ![r].new = constructions + 1]
          /\ Goto(r, "bind")
          /\ UNCHANGED loadFailed
    /\ UNCHANGED <<pipe, model_loaded, onDevice, counters, catalogs, disk,
                   running, kind, resp, renders>>

\* load_model(), line 54, the assignment: pipe = <new object>; the object the
\* name held before loses its last reference and is released.
LoadBind(r) ==
    /\ At(r, "bind")
    /\ pipe' = loc[r].new
    /\ live' = (live \ {pipe}) \cup {loc[r].new}
    /\ onDevice' = onDevice \ {pipe}
    /\ loc' = [loc EXCEPT ![r].new = NoHandle]
    /\ Goto(r, "to")
    /\ UNCHANGED <<model_loaded, constructions, counters, catalogs, disk,
                   running, kind, resp, history>>

\* load_model(), line 59: pipe = pipe.to(device) either raises (pipe keeps the
\* constructed handle) or moves the pipeline and returns it.
LoadToDevice(r) ==
    /\ At(r, "to")
    /\ \/ /\ Raise(r, "to")
          /\ loadFailed' = TRUE
          /\ UNCHANGED onDevice
       \/ /\ pipe # NoHandle
          /\ onDevice' = onDevice \cup {pipe}
          /\ Goto(r, "mark")
          /\ UNCHANGED <<loc, loadFailed>>
    /\ UNCHANGED <<pipe, model_loaded, live, constructions, counters,
                   catalogs, disk, running, kind, resp, renders>>

\* load_model(), lines 62-65: pipe.safety_checker = None; model_loaded = True
LoadMark(r) ==
    /\ At(r, "mark")
    /\ IF pipe = NoHandle
       THEN /\ Raise(r, "mark")    \* None takes no attribute
            /\ loadFailed' = TRUE
            /\ UNCHANGED model_loaded
       ELSE /\ model_loaded' = TRUE
            /\ Goto(r, "prep")
            /\ UNCHANGED <<loc, loadFailed>>
    /\ UNCHANGED <<pipe, live, onDevice, constructions, counters, catalogs,
                   disk, running, kind, resp, renders>>

Catalog(k) == IF k = "avatar" THEN AVATAR_STYLES ELSE BANNER_STYLES

SeqRange(s) == {s[i] : i \in 1..Len(s)}

\* random.choice(seq): the values it can return; it raises on an empty list.
Choices(seq) == SeqRange(seq)

\* lines 148-156 / 192-199: style = req.style or random.choice(CATALOG), with
\* req.style = s; the style only feeds the prompt, which the model leaves out.
Prepare(r, s) ==
    /\ At(r, "prep")
    /\ IF s = "" /\ Choices(Catalog(kind[r])) = {}
       THEN Raise(r, "style")
       ELSE /\ Goto(r, "render")
            /\ UNCHANGED loc
    /\ UNCHANGED <<model, counters, catalogs, disk, running, kind, resp,
                   history>>

\* lines 158 / 201: the call pipe(...) is made on whatever `pipe` holds; None
\* is not callable (the model-not-ready fault).
RenderCall(r) ==
    /\ At(r, "render")
    /\ IF pipe = NoHandle
       THEN /\ Raise(r, "notready")
            /\ UNCHANGED renders
       ELSE /\ renders' = Append(renders, r)
            /\ Goto(r, "rendering")
            /\ UNCHANGED loc
    /\ UNCHANGED <<model, counters, catalogs, disk, running, kind, resp,
                   loadFailed>>

\* lines 158-165 / 201-208: the pipeline call returns an image or raises.
RenderReturn(r) ==
    /\ At(r, "rendering")
    /\ \/ Raise(r, "render")
       \/ /\ loc' = [loc EXCEPT ![r].image = TRUE]
          /\ Goto(r, "save")
    /\ UNCHANGED <<model, counters, catalogs, disk, running, kind, resp,
                   history>>

Written(r, st) == [state |-> st, by |-> r]

\* lines 167-169 / 210-212: a name from uuid4, then image.save(filepath).
\* save opens the path for writing (creating or truncating it) and encodes
\* into it; it can raise before the file is opened, or after it was opened
\* with only part of the data written.  The handler does nothing about the
\* file on that path.
Save(r) ==
    /\ At(r, "save")
    /\ \E h \in Hex :
         LET n == <<kind[r], h>> IN
         \/ /\ files' = [files EXCEPT ![n] = Written(r, "complete")]
            /\ Goto(r, "inc_total")
            /\ UNCHANGED loc
         \/ /\ Raise(r, "save")
            /\ UNCHANGED files
         \/ /\ Raise(r, "save")
            /\ files' = [files EXCEPT ![n] = Written(r, "partial")]
    /\ UNCHANGED <<model, counters, catalogs, env, running, kind, resp,
                   history>>

\* total_generated += 1 present in generate_avatar only.
IncTotalAvatarOnly(r) ==
    /\ At(r, "inc_total")
    /\ IF kind[r] = "avatar"
       THEN total_generated' = total_generated + 1
       ELSE UNCHANGED total_generated
    /\ Goto(r, "inc_kind")
    /\ UNCHANGED <<model, avatars_generated, banners_generated, catalogs,
                   disk, running, kind, loc, resp, history>>

\* lines 172 / 215: total_generated += 1
IncTotal(r) ==
    /\ At(r, "inc_total")
    /\ total_generated' = total_generated + 1
    /\ Goto(r, "inc_kind")
    /\ UNCHANGED <<model, avatars_generated, banners_generated, catalogs,
                   disk, running, kind, loc, resp, history>>

\* Line 216 copied from line 173 without renaming the counter.
IncKindAvatarOnly(r) ==
    /\ At(r, "inc_kind")
    /\ avatars_generated' = avatars_generated + 1
    /\ Goto(r, "respond")
    /\ UNCHANGED <<model, total_generated, banners_generated, catalogs, disk,
                   running, kind, loc, resp, history>>

\* lines 173 / 216: avatars_generated += 1, or banners_generated += 1
IncKind(r) ==
    /\ At(r, "inc_kind")
    /\ IF kind[r] = "avatar"
       THEN /\ avatars_generated' = avatars_generated + 1
            /\ UNCHANGED banners_generated
       ELSE /\ banners_generated' = banners_generated + 1
            /\ UNCHANGED avatars_generated
    /\ Goto(r, "respond")
    /\ UNCHANGED <<model, total_generated, catalogs, disk, running, kind,
                   loc, resp, history>>

\* lines 175-181 / 218-224: return JSONResponse({"success": True, ...})
Respond(r) ==
    /\ At(r, "respond")
    /\ Finish(r, 200)
    /\ UNCHANGED <<model, counters, catalogs, disk, kind, history>>

\* lines 182-183 / 225-226: except Exception -> HTTPException(500)
Except(r) ==
    /\ At(r, "except")
    /\ Finish(r, 500)
    /\ UNCHANGED <<model, counters, catalogs, disk, kind, history>>

\* ---- POST /unload ----

\* lines 229-232: the coroutine is entered and calls unload_model()
StartUnload(r) ==
    /\ Enter(r, "unload", "u_release")
    /\ UNCHANGED <<model, counters, catalogs, disk, resp, history>>

\* unload_model() without line 74: the flag stays set.
UnloadReleaseKeepsFlag(r) ==
    /\ At(r, "u_release")
    /\ IF pipe # NoHandle
       THEN /\ live' = live \ {pipe}
            /\ onDevice' = onDevice \ {pipe}
            /\ pipe' = NoHandle
       ELSE UNCHANGED <<pipe, live, onDevice>>
    /\ Goto(r, "u_cache")
    /\ UNCHANGED <<model_loaded, constructions, counters, catalogs, disk,
                   running, kind, loc, resp, history>>

\* unload_model(), lines 71-74: drop the handle if there is one, clear the flag
UnloadRelease(r) ==
    /\ At(r, "u_release")
    /\ IF pipe # NoHandle
       THEN /\ live' = live \ {pipe}
            /\ onDevice' = onDevice \ {pipe}
            /\ pipe' = NoHandle
       ELSE UNCHANGED <<pipe, live, onDevice>>
    /\ model_loaded' = FALSE
    /\ Goto(r, "u_cache")
    /\ UNCHANGED <<constructions, counters, catalogs, disk, running, kind,
                   loc, resp, history>>

\* unload_model(), lines 76-79: empty_cache() of the device, not called on
\* cpu; nothing catches what it raises, so the request ends in a 500.
UnloadEmptyCache(r) ==
    /\ At(r, "u_cache")
    /\ \/ /\ Goto(r, "u_gc")
          /\ UNCHANGED <<loc, resp, running>>
       \/ /\ device # "cpu"
          /\ Finish(r, 500)
    /\ UNCHANGED <<model, counters, catalogs, disk, kind, history>>

\* unload_model(), lines 81-83, and unload(), line 233
UnloadReturn(r) ==
    /\ At(r, "u_gc")
    /\ Finish(r, 200)
    /\ UNCHANGED <<model, counters, catalogs, disk, kind, history>>

\* ---- PUT /styles ----

\* update_styles() assigning each supplied list before it tests its length.
update_styles_assign_first(r, a, b) ==
    /\ Arrives(r)
    /\ MayRun(r)
    /\ kind' = [kind EXCEPT ![r] = "styles"]
    /\ AVATAR_STYLES' = IF a.given THEN a.list ELSE AVATAR_STYLES
    /\ IF a.given /\ Len(a.list) = 0
       THEN /\ resp' = [resp EXCEPT ![r] = 400]
            /\ UNCHANGED BANNER_STYLES
       ELSE /\ BANNER_STYLES' = IF b.given THEN b.list ELSE BANNER_STYLES
            /\ resp' = [resp EXCEPT ![r] =
                           IF b.given /\ Len(b.list) = 0 THEN 400 ELSE 200]
    /\ Goto(r, "done")
    /\ UNCHANGED <<model, counters, disk, running, loc, history>>

\* update_styles() without the two length tests of lines 247 and 251.
update_styles_unchecked(r, a, b) ==
    /\ Arrives(r)
    /\ MayRun(r)
    /\ kind' = [kind EXCEPT ![r] = "styles"]
    /\ AVATAR_STYLES' = IF a.given THEN a.list ELSE AVATAR_STYLES
    /\ BANNER_STYLES' = IF b.given THEN b.list ELSE BANNER_STYLES
    /\ resp' = [resp EXCEPT ![r] = 200]
    /\ Goto(r, "done")
    /\ UNCHANGED <<model, counters, disk, running, loc, history>>

\* update_styles(), lines 246-254: the avatar list is checked and assigned
\* before the banner list is looked at.
update_styles(r, a, b) ==
    /\ Arrives(r)
    /\ MayRun(r)
    /\ kind' = [kind EXCEPT ![r] = "styles"]
    /\ IF a.given /\ Len(a.list) = 0
       THEN /\ resp' = [resp EXCEPT ![r] = 400]
            /\ UNCHANGED catalogs
       ELSE /\ AVATAR_STYLES' = IF a.given THEN a.list ELSE AVATAR_STYLES
            /\ IF b.given /\ Len(b.list) = 0
               THEN /\ resp' = [resp EXCEPT ![r] = 400]
                    /\ UNCHANGED BANNER_STYLES
               ELSE /\ BANNER_STYLES' = IF b.given THEN b.list
                                                   ELSE BANNER_STYLES
                    /\ resp' = [resp EXCEPT ![r] = 200]
    /\ Goto(r, "done")
    /\ UNCHANGED <<model, counters, disk, running, loc, history>>

\* ---- POST /clear-output ----

\* OUTPUT_DIR.glob("*.png"): the names that have a file
Present == {n \in Names : files[n].state # "absent"}

\* lines 290-292: the coroutine is entered
StartClear(r) ==
    /\ Enter(r, "clear", "c_list")
    /\ UNCHANGED <<model, counters, catalogs, disk, resp, history>>

\* line 293: files = list(OUTPUT_DIR.glob("*.png"))
ClearList(r) ==
    /\ At(r, "c_list")
    /\ loc' = [loc EXCEPT ![r].listed = Present, ![r].todo = Present]
    /\ Goto(r, "c_loop")
    /\ UNCHANGED <<model, counters, catalogs, disk, running, kind, resp,
                   history>>

\* clear_output() with the unlink in a try block that passes on OSError.
ClearUnlinkBestEffort(r) ==
    /\ At(r, "c_loop")
    /\ \E n \in loc[r].todo :
         /\ loc' = [loc EXCEPT ![r].todo = @ \ {n}]
         /\ \/ files' = [files EXCEPT ![n] = Absent]
            \/ UNCHANGED files
         /\ UNCHANGED pc
    /\ UNCHANGED <<model, counters, catalogs, env, running, kind, resp,
                   history>>

\* lines 294-295: for f in files: f.unlink().  The directory yields the names
\* in no particular order.  unlink removes the file, or raises: because the
\* file is no longer there, or because it cannot be removed.  Nothing catches
\* what it raises.
ClearUnlink(r) ==
    /\ At(r, "c_loop")
    /\ \E n \in loc[r].todo :
         \/ /\ files' = [files EXCEPT ![n] = Absent]
            /\ loc' = [loc EXCEPT ![r].todo = @ \ {n}]
            /\ UNCHANGED pc
         \/ /\ files' = [files EXCEPT ![n] = Absent]
            /\ loc' = [loc EXCEPT ![r].fault = "unlink"]
            /\ Goto(r, "c_raise")
         \/ /\ UNCHANGED files
            /\ loc' = [loc EXCEPT ![r].fault = "unlink"]
            /\ Goto(r, "c_raise")
    /\ UNCHANGED <<model, counters, catalogs, env, running, kind, resp,
                   history>>

\* line 296, the response body: "deleted": len(files)
ClearCount(r) ==
    /\ At(r, "c_loop")
    /\ loc[r].todo = {}
    /\ loc' = [loc EXCEPT ![r].deleted = Cardinality(loc[r].listed)]
    /\ Goto(r, "c_return")
    /\ UNCHANGED <<model, counters, catalogs, disk, running, kind, resp,
                   history>>

\* line 296: return {"success": True, ...}
ClearReturn(r) ==
    /\ At(r, "c_return")
    /\ Finish(r, 200)
    /\ UNCHANGED <<model, counters, catalogs, disk, kind, history>>

\* the exception of line 295 leaves the handler: the request is answered 500
ClearRaise(r) ==
    /\ At(r, "c_raise")
    /\ Finish(r, 500)
    /\ UNCHANGED <<model, counters, catalogs, disk, kind, history>>

\* ---- GET /health, GET /stats, GET /recent ----

\* A read-only handler is entered: like every handler it takes the event loop.
EnterRead ==
    /\ probe.op = "none"
    /\ MayRun(ReadReq)
    /\ running' = ReadReq

\* health() reporting whether `pipe` is bound instead of the flag.
health_from_pipe ==
    /\ EnterRead
    /\ probe' = [NoProbe EXCEPT !.op = "health",
                                !.loaded = (pipe # NoHandle),
                                !.device = device, !.before = Snapshot]
    /\ UNCHANGED <<model, counters, catalogs, files, process, pc, kind, loc,
                   resp, history>>

\* lines 137-139: {"status": "ok", "model_loaded": model_loaded,
\*                 "device": get_device()}
health ==
    /\ EnterRead
    /\ probe' = [NoProbe EXCEPT !.op = "health", !.loaded = model_loaded,
                                !.device = device, !.before = Snapshot]
    /\ UNCHANGED <<model, counters, catalogs, files, process, pc, kind, loc,
                   resp, history>>

\* lines 257-270: the three counters, model_loaded and get_device(); the
\* directory size and the uptime are not kept.
get_stats ==
    /\ EnterRead
    /\ probe' = [NoProbe EXCEPT !.op = "stats", !.loaded = model_loaded,
                                !.device = device,
                                !.total = total_generated,
                                !.avatars = avatars_generated,
                                !.banners = banners_generated,
                                !.before = Snapshot]
    /\ UNCHANGED <<model, counters, catalogs, files, process, pc, kind, loc,
                   resp, history>>

\* f.stat().st_mtime: a file's modification time is the time of the request
\* that wrote it last; requests are numbered in the order they run.
Mtime(n) == files[n].by

\* The head of sorted(S, key=mtime, reverse=True): a file none is newer than.
Newest(S) == {m \in S : \A k \in S : Mtime(k) <= Mtime(m)}

\* line 276, sorted(OUTPUT_DIR.glob("*.png"), key=..., reverse=True): the
\* sort is stable and glob yields the names in no particular order, so files
\* of equal mtime can come out in either order.
RECURSIVE NewestFirst(_)
NewestFirst(S) ==
    IF S = {} THEN {<<>>}
    ELSE UNION {{<<m>> \o t : t \in NewestFirst(S \ {m})} : m \in Newest(S)}

Min(a, b) == IF a <= b THEN a ELSE b
Max(a, b) == IF a >= b THEN a ELSE b

\* line 276, Python's seq[:limit]: a negative limit counts from the end
Slice(seq, limit) ==
    LET n == Len(seq)
        stop == IF limit >= 0 THEN Min(limit, n) ELSE Max(n + limit, 0)
    IN  SubSeq(seq, 1, stop)

\* line 274: limit: int = 20
DefaultLimit == 20

\* The values of ?limit= tried: negative, zero, fewer and more than the files.
Limits == {-1, 0, 1, 2, DefaultLimit}

\* lines 273-287: one entry per file of the truncated list, in its order
get_recent(limit) ==
    /\ EnterRead
    /\ \E order \in NewestFirst(Present) :
         probe' = [NoProbe EXCEPT !.op = "recent", !.limit = limit,
                                  !.files = Slice(order, limit),
                                  !.before = Snapshot]
    /\ UNCHANGED <<model, counters, catalogs, files, process, pc, kind, loc,
                   resp, history>>

\* the read-only handler returns its response
ReadReturn ==
    /\ probe.op # "none"
    /\ MayRun(ReadReq)
    /\ probe' = NoProbe
    /\ running' = NoReq
    /\ UNCHANGED <<model, counters, catalogs, files, process, pc, kind, loc,
                   resp, history>>

\* ---- the seed of a generate request ----

SeedModulus == MaxSeed + 1     \* 2**32 in the source

HashKeys == 0..MaxKey

\* req.name as its characters: the empty string, "a", "ab"
ReqNames == {<<>>, <<1>>, <<1, 2>>}

\* "_banner", line 195, as one character
BannerSuffix == <<3>>

\* hash(str): CPython hashes a str with a keyed hash whose key is drawn when
\* the process starts (PYTHONHASHSEED unset), so the value is a function of
\* the key and the characters.  A keyed polynomial stands for it; the hash is
\* only ever used modulo 2**32, so it is computed modulo SeedModulus.
StrHash(str, key) ==
    LET RECURSIVE Mix(_, _)
        Mix(h, t) == IF t = <<>> THEN h
                     ELSE Mix((3 * h + Head(t)) % SeedModulus, Tail(t))
    IN  Mix(key, str)

\* lines 150-154 and 194-197: the seed of a request with this name and kind
SeedsOf(name, k) ==
    IF name # <<>>
    THEN {StrHash(IF k = "avatar" THEN name ELSE name \o BannerSuffix,
                  hash_key) % SeedModulus}
    ELSE 0..MaxSeed

\* One generate request derives its seed; `seeds` records it with the name
\* and the kind.  At most MaxReq requests are looked at.
DeriveSeed(name, k) ==
    /\ running = NoReq
    /\ Cardinality(seeds) < MaxReq
    /\ \E seed \in SeedsOf(name, k) :
         seeds' = seeds \cup {[name |-> name, kind |-> k, seed |-> seed]}
    /\ UNCHANGED <<model, counters, catalogs, files, device, hash_key, probe,
                   running, pc, kind, loc, resp, history>>

\* The process is stopped and started again (lines 299-301): the new
\* interpreter draws a new hash key.  `seeds` is the observer's record and
\* outlives the process.
Restart ==
    /\ running = NoReq
    /\ \E key \in HashKeys : hash_key' = key
    /\ UNCHANGED <<model, counters, catalogs, files, device, seeds, probe,
                   running, pc, kind, loc, resp, history>>

\* ---- the specification ----

Next ==
    \/ \E r \in Reqs, k \in GenKinds : StartGenerate(r, k)
    \/ \E r \in Reqs : LoadCheck(r)
    \/ \E r \in Reqs : LoadConstruct(r)
    \/ \E r \in Reqs : LoadBind(r)
    \/ \E r \in Reqs : LoadToDevice(r)
    \/ \E r \in Reqs : LoadMark(r)
    \/ \E r \in Reqs, s \in ReqStyles : Prepare(r, s)
    \/ \E r \in Reqs : RenderCall(r)
    \/ \E r \in Reqs : RenderReturn(r)
    \/ \E r \in Reqs : Save(r)
    \/ \E r \in Reqs : IncTotal(r)
    \/ \E r \in Reqs : IncKind(r)
    \/ \E r \in Reqs : Respond(r)
    \/ \E r \in Reqs : Except(r)
    \/ \E r \in Reqs : StartUnload(r)
    \/ \E r \in Reqs : UnloadRelease(r)
    \/ \E r \in Reqs : UnloadEmptyCache(r)
    \/ \E r \in Reqs : UnloadReturn(r)
    \/ \E r \in Reqs, a \in StyleInputs, b \in StyleInputs :
          update_styles(r, a, b)
    \/ \E r \in Reqs : StartClear(r)
    \/ \E r \in Reqs : ClearList(r)
    \/ \E r \in Reqs : ClearUnlink(r)
    \/ \E r \in Reqs : ClearCount(r)
    \/ \E r \in Reqs : ClearReturn(r)
    \/ \E r \in Reqs : ClearRaise(r)

Spec == Init /\ [][Next]_vars

\* ---- the service with its read-only endpoints ----

\* The read-only handlers change no variable of Spec but `running`, which
\* they give back, so the states of the program are those of Spec; they are
\* kept out of Spec because each doubles the number of states to visit.
NextRead ==
    \/ Next
    \/ health
    \/ get_stats
    \/ get_recent(DefaultLimit)
    \/ ReadReturn

ReadSpec == Init /\ [][NextRead]_vars

\* ---- GET /recent over any content of the output directory ----

\* OUTPUT_DIR is a directory of the host: it can hold any png files, with any
\* modification times, equal ones included.
Listings == [Names -> {Absent} \cup {Written(r, "complete") : r \in Reqs}]

InitRecent ==
    /\ InitProcess
    /\ files \in Listings
    /\ hash_key = 0

NextRecent ==
    \/ \E limit \in Limits : get_recent(limit)
    \/ ReadReturn

RecentSpec == InitRecent /\ [][NextRecent]_vars

\* ---- seeds across process runs ----

InitSeed ==
    /\ InitProcess
    /\ files = [n \in Names |-> Absent]
    /\ hash_key \in HashKeys

NextSeed ==
    \/ \E name \in ReqNames, k \in GenKinds : DeriveSeed(name, k)
    \/ Restart

SeedSpec == InitSeed /\ [][NextSeed]_vars

\* ---- properties ----

Generate(r) == pc[r] # "idle" /\ kind[r] \in GenKinds

Unload(r) == pc[r] # "idle" /\ kind[r] = "unload"

Succeeded(r) == pc[r] = "done" /\ resp[r] = 200

\* r has returned from load_model() into the rest of its handler
PastLoad(r) ==
    /\ Generate(r)
    /\ pc[r] \notin {"load", "construct", "bind", "to", "mark"}

\* no handler is between its entry and its return
Quiescent == \A r \in Reqs : pc[r] \in {"idle", "done"}

Loaded == model_loaded /\ pipe # NoHandle /\ pipe \in onDevice

\* C1: as long as no unload was requested and no load has failed, however
\* many generate requests of either kind have been issued, from_pretrained
\* has returned at most once, and every generate request that is past its
\* load step finds exactly one construction done and the model loaded.
C1_SingleFlightLoad ==
    (~loadFailed /\ ~(\E u \in Reqs : Unload(u))) =>
        /\ constructions <= 1
        /\ \A r \in Reqs :
              PastLoad(r) => constructions = 1 /\ Loaded /\ live = {pipe}

\* Two generate requests, one of each kind, have both been answered with
\* success off a single construction.
C1_Witness ==
    /\ ~loadFailed
    /\ ~(\E u \in Reqs : Unload(u))
    /\ constructions = 1
    /\ \E a, b \in Reqs :
          /\ kind[a] = "avatar" /\ Succeeded(a)
          /\ kind[b] = "banner" /\ Succeeded(b)

\* The steps outside load_model() that read `pipe`: the render call (line
\* 158 / 201) and the test of unload_model() (line 71).
ReadsPipe(r) == pc[r] \in {"render", "u_release"}

\* C2: at most one constructed and not yet released handle exists, and no
\* request reads from `pipe` a handle that is not on its device and marked
\* loaded.
C2_OneCompleteHandle ==
    /\ Cardinality(live) <= 1
    /\ \A r \in Reqs :
          (ReadsPipe(r) /\ pipe # NoHandle) =>
              pipe \in onDevice /\ model_loaded

\* C3: between requests model_loaded is true exactly when `pipe` holds a
\* handle, and a request whose load failed leaves no handle and the flag false.
C3_LoadedIffHandle ==
    /\ Quiescent => (model_loaded <=> pipe # NoHandle)
    /\ \A r \in Reqs :
          (pc[r] = "except"
             /\ loc[r].fault \in {"construct", "to", "mark"}) =>
              pipe = NoHandle /\ ~model_loaded

\* C4: a generate request makes its render call only with the model loaded
\* and the handle present, and no generate request ever raises the
\* model-not-ready fault, whatever unloads came before it.
C4_RenderOnlyWhenLoaded ==
    \A r \in Reqs :
        /\ pc[r] \in {"render", "rendering"} => Loaded
        /\ loc[r].fault # "notready"

\* A generate request is rendering after an unload that itself followed a
\* successful generate request: the model was loaded a second time.
C4_Witness ==
    \E g, u, r \in Reqs :
        /\ g < u /\ u < r
        /\ Generate(g) /\ Succeeded(g)
        /\ Unload(u) /\ pc[u] = "done"
        /\ Generate(r) /\ pc[r] = "rendering"
        /\ constructions = 2

Successes(k) == {r \in Reqs : kind[r] = k /\ Succeeded(r)}

\* C5: whenever no request is in progress, avatars_generated and
\* banners_generated equal the numbers of generate-avatar and generate-banner
\* requests answered with success, and total_generated equals their sum.
C5_CountersCountSuccesses ==
    Quiescent =>
        /\ avatars_generated = Cardinality(Successes("avatar"))
        /\ banners_generated = Cardinality(Successes("banner"))
        /\ total_generated = Cardinality(Successes("avatar"))
                             + Cardinality(Successes("banner"))

\* Two avatars and one banner were generated, as in the /stats scenario.
C5_Witness ==
    /\ Quiescent
    /\ Cardinality(Successes("avatar")) = 2
    /\ Cardinality(Successes("banner")) = 1
    /\ total_generated = 3

\* C6: a generate request that has failed, and is about to be answered with
\* the 500 of line 183, finds the three counters and the output directory
\* exactly as they were when it was entered.
C6_FailureLeavesNoTrace ==
    \A r \in Reqs :
        (Generate(r) /\ pc[r] = "except") =>
            /\ files = loc[r].before.files
            /\ total_generated = loc[r].before.total
            /\ avatars_generated = loc[r].before.avatars
            /\ banners_generated = loc[r].before.banners

\* C7: while a generate request is between its load step and the end of its
\* render call, `pipe` holds a handle: no unload has released it.
C7_NoUnloadDuringGenerate ==
    \A r \in Reqs :
        (Generate(r) /\ pc[r] \in {"prep", "render", "rendering"}) =>
            pipe # NoHandle /\ pipe \in live

\* An unload has released the handle of a generate request that came before
\* it and was answered, while a later request is still to come.
C7_Witness ==
    \E g, u \in Reqs :
        /\ g < u
        /\ Generate(g) /\ Succeeded(g)
        /\ Unload(u) /\ pc[u] = "u_cache"
        /\ pipe = NoHandle /\ live = {}
        /\ \E w \in Reqs : pc[w] = "idle"

Rendering == {r \in Reqs : pc[r] = "rendering"}

C9_UnloadNeverFails ==
    \A r \in Reqs :
        Unload(r) =>
            /\ pc[r] \in {"u_cache", "u_gc"} =>
                  pipe = NoHandle /\ ~model_loaded
            /\ pc[r] = "done" => resp[r] = 200

\* C10: an unload leaves no handle and the flag false, leaves the counters,
\* the catalogs and the output directory as it found them, changes nothing
\* when it found the model unloaded, and does not fail.
C10_UnloadIdempotent ==
    \A r \in Reqs :
        Unload(r) =>
            /\ pc[r] \in {"u_cache", "u_gc"} =>
                  /\ pipe = NoHandle /\ ~model_loaded /\ live = {}
                  /\ files = loc[r].before.files
                  /\ total_generated = loc[r].before.total
                  /\ avatars_generated = loc[r].before.avatars
                  /\ banners_generated = loc[r].before.banners
                  /\ AVATAR_STYLES = loc[r].before.astyles
                  /\ BANNER_STYLES = loc[r].before.bstyles
            /\ pc[r] = "done" => resp[r] = 200

Styles(r) == pc[r] # "idle" /\ kind[r] = "styles"

Empty(x) == x.given /\ Len(x.list) = 0

\* C11: a PUT /styles that supplies both lists, exactly one of them empty, is
\* answered 400, leaves the catalog of the empty list as it was and replaces
\* the catalog of the other list by the supplied list, whichever is empty.
C11_EachListIndependently ==
    [][\A r \in Reqs, a, b \in StyleInputs :
          (update_styles(r, a, b) /\ a.given /\ b.given
             /\ Empty(a) # Empty(b)) =>
              /\ resp'[r] = 400
              /\ Empty(a) => /\ AVATAR_STYLES' = AVATAR_STYLES
                             /\ BANNER_STYLES' = b.list
              /\ Empty(b) => /\ BANNER_STYLES' = BANNER_STYLES
                             /\ AVATAR_STYLES' = a.list]_vars

\* C12: a PUT /styles that supplies one list only: a non-empty list becomes
\* that catalog and the other catalog is unchanged; an empty list is answered
\* 400 and both catalogs are unchanged.
C12_OnlySuppliedListTouched ==
    [][\A r \in Reqs, a, b \in StyleInputs :
          (update_styles(r, a, b) /\ a.given # b.given) =>
              /\ (a.given /\ ~Empty(a)) =>
                    /\ AVATAR_STYLES' = a.list
                    /\ BANNER_STYLES' = BANNER_STYLES
                    /\ resp'[r] = 200
              /\ (b.given /\ ~Empty(b)) =>
                    /\ BANNER_STYLES' = b.list
                    /\ AVATAR_STYLES' = AVATAR_STYLES
                    /\ resp'[r] = 200
              /\ (Empty(a) \/ Empty(b)) =>
                    /\ resp'[r] = 400
                    /\ UNCHANGED catalogs]_vars

\* The avatar catalog alone was replaced, and an empty list was refused.
C12_Witness ==
    /\ AVATAR_STYLES = <<"x">>
    /\ BANNER_STYLES = DefaultBannerStyles
    /\ \E r, q \in Reqs :
          /\ Styles(r) /\ resp[r] = 200
          /\ Styles(q) /\ resp[q] = 400

\* C13: both catalogs are non-empty in every reachable state, and the random
\* style pick of a generate request never raises.
C13_CatalogsNeverEmpty ==
    /\ AVATAR_STYLES # <<>>
    /\ BANNER_STYLES # <<>>
    /\ \A r \in Reqs : loc[r].fault # "style"

\* After a refused and an accepted PUT /styles a generate request has made
\* its style pick.
C13_Witness ==
    \E q, r, g \in Reqs :
        /\ Styles(q) /\ resp[q] = 400
        /\ Styles(r) /\ resp[r] = 200
        /\ q < g /\ r < g
        /\ Generate(g) /\ pc[g] = "render"
        /\ Catalog(kind[g]) = <<"x">>

\* C14: a generate request never changes a file that was in the output
\* directory when it was entered, and one whose save succeeded has added
\* exactly one file under a name that was free.
C14_SaveNeverOverwrites ==
    \A r \in Reqs :
        Generate(r) =>
            /\ \A n \in Names :
                  loc[r].before.files[n] # Absent =>
                      files[n] = loc[r].before.files[n]
            /\ pc[r] = "inc_total" =>
                  \E n \in Names :
                      /\ loc[r].before.files[n] = Absent
                      /\ files[n] = Written(r, "complete")
                      /\ \A m \in Names \ {n} :
                            files[m] = loc[r].before.files[m]

Clear(r) == pc[r] # "idle" /\ kind[r] = "clear"

\* C15: a clear-output request goes through every file it listed even when
\* an unlink fails, is answered without an error, and reports as deleted the
\* number of files it removed.
C15_ClearIsBestEffort ==
    \A r \in Reqs :
        Clear(r) =>
            /\ pc[r] # "c_raise"
            /\ pc[r] = "c_return" =>
                  /\ loc[r].todo = {}
                  /\ loc[r].deleted = Cardinality(loc[r].listed \ Present)
            /\ pc[r] = "done" => resp[r] = 200

\* the successful generate requests that came before request r
SucceededBefore(r) == {q \in Reqs : q < r /\ Generate(q) /\ Succeeded(q)}

FirstClear(r) == Clear(r) /\ \A q \in Reqs : q < r => ~Clear(q)

\* C16: the first clear-output request of a run, which started with an empty
\* directory, ends with success and reports as deleted the number of generate
\* requests that succeeded before it, and it leaves the directory empty: a
\* GET /recent after it, with no generate request in between, lists nothing.
C16_ClearCountsGenerated ==
    \A r \in Reqs :
        FirstClear(r) =>
            /\ pc[r] = "c_return" =>
                  /\ loc[r].deleted = Cardinality(SucceededBefore(r))
                  /\ Present = {}
            /\ pc[r] = "done" => resp[r] = 200
            /\ (/\ probe.op = "recent"
                /\ Succeeded(r)
                /\ \A q \in Reqs : q > r => ~Generate(q))
                  => probe.files = <<>>

\* C17: any two generate requests with the same non-empty name and the same
\* kind use the same seed, whether one process served both or a restart lies
\* between them.
C17_SeedSameAcrossRuns ==
    \A a, b \in seeds :
        (a.name # <<>> /\ a.name = b.name /\ a.kind = b.kind)
            => a.seed = b.seed

\* C18: while /health or /stats is being answered, the model_loaded it
\* reports is the value of the global, and the handler has changed nothing:
\* pipe, model_loaded, the counters, the catalogs and the files are as it
\* found them, no pipeline was constructed and none was released.
C18_ReadsArePure ==
    probe.op \in {"health", "stats"} =>
        /\ probe.loaded = model_loaded
        /\ probe.before = Snapshot

\* /health is answered "loaded" after a generate request has succeeded.
C18_Witness == probe.op = "health" /\ probe.loaded /\ total_generated > 0

\* Range of the reply of GET /recent
Listed == SeqRange(probe.files)

\* C19: the reply of GET /recent?limit=l holds no more than l entries (none
\* when l is negative); for l >= 0 it holds min(l, n) of the n files present,
\* each once, newest first, and no file left out is newer than a listed one.
C19_RecentNewestFirstTruncated ==
    probe.op = "recent" =>
        LET l == probe.limit
            res == probe.files
            n == Cardinality(Present)
        IN  /\ Len(res) <= Max(l, 0)
            /\ l >= 0 =>
                  /\ Len(res) = Min(l, n)
                  /\ Listed \subseteq Present
                  /\ Cardinality(Listed) = Len(res)
                  /\ \A i, j \in 1..Len(res) :
                        i < j => Mtime(res[i]) >= Mtime(res[j])
                  /\ \A m \in Present \ Listed, k \in Listed :
                        Mtime(m) <= Mtime(k)

\* Generate requests that have executed line 172 / 215 and not yet line
\* 173 / 216.
BetweenIncrements == {r \in Reqs : Generate(r) /\ pc[r] = "inc_kind"}

\* No step decreases one of the three counters.
NoCounterDecreases ==
    /\ total_generated' >= total_generated
    /\ avatars_generated' >= avatars_generated
    /\ banners_generated' >= banners_generated

\* C20: in every reachable state total_generated is the sum of
\* avatars_generated and banners_generated, and no step of any operation
\* decreases one of the three counters.
C20_TotalIsSumAlways ==
    /\ [](total_generated = avatars_generated + banners_generated)
    /\ [][NoCounterDecreases]_vars

\* C20 as amended: total_generated is the sum of the other two counters in
\* every state in which no generate request is between its two increments,
\* and one more than the sum while a request is; no step of any operation
\* decreases one of the three counters.
C20_TotalIsSumOutsideIncrements ==
    /\ [](total_generated = avatars_generated + banners_generated
                            + Cardinality(BetweenIncrements))
    /\ [](Cardinality(BetweenIncrements) <= 1)
    /\ [][NoCounterDecreases]_vars

\* A banner request is between its two increments after an avatar was
\* counted and an unload request was served.
C20_Witness ==
    \E r, a, u \in Reqs :
        /\ r \in BetweenIncrements /\ kind[r] = "banner"
        /\ kind[a] = "avatar" /\ Succeeded(a)
        /\ Unload(u) /\ pc[u] = "done"
        /\ total_generated = 2 /\ avatars_generated = 1
        /\ banners_generated = 0

====
